---------------------------- MODULE Spec2Model ----------------------------
(***************************************************************************)
(* A model of the pandas-ta indicator wrappers stdev, stochf, t3, hlc3,    *)
(* tsi, remap, ifisher and trendflex, and of the trendflex filter engine   *)
(* np_trendflex.                                                           *)
(*                                                                         *)
(* Each wrapper is one action: a call moves the process from "idle" to     *)
(* "done" and leaves the arguments and everything the wrapper computed in  *)
(* the state; Return discards them.  The only state that survives a call  *)
(* is the backend-availability map Imports, set once at start.             *)
(*                                                                         *)
(* Numbers.  A float is held as an exact rational <<n, d>> in lowest       *)
(* terms with d > 0; NaN is <<0, 0>> and propagates through the            *)
(* arithmetic as IEEE NaN does.  Infinities, rounding and overflow of      *)
(* doubles are not modelled.  A series is a function on 0 .. m-1, as the   *)
(* arrays of the code are.                                                 *)
(***************************************************************************)
EXTENDS Integers, Sequences, FiniteSets, TLC

VARIABLES Imports, pc, fn, args, out

vars == <<Imports, pc, fn, args, out>>

-----------------------------------------------------------------------------
(* Bounds of the model.                                                    *)

\* longest series of sample values handed to a wrapper
MaxLen == 4

-----------------------------------------------------------------------------
(* Rational arithmetic with NaN.                                           *)

Abs(i) == IF i < 0 THEN -i ELSE i

Sgn(i) == IF i < 0 THEN -1 ELSE IF i > 0 THEN 1 ELSE 0

Max2(i, j) == IF i >= j THEN i ELSE j

RECURSIVE GCD(_, _)
GCD(i, j) == IF j = 0 THEN i ELSE GCD(j, i % j)

NaN == <<0, 0>>

IsNaN(x) == x[2] = 0

\* the rational n/d in lowest terms; a zero denominator is NaN
Q(n, d) ==
    IF d = 0 THEN NaN
    ELSE LET g == GCD(Abs(n), Abs(d))
         IN  <<(Sgn(d) * Sgn(n)) * (Abs(n) \div g), Abs(d) \div g>>

I(i) == <<i, 1>>

RNeg(x) == IF IsNaN(x) THEN NaN ELSE <<-x[1], x[2]>>

RAdd(x, y) ==
    IF IsNaN(x) \/ IsNaN(y) THEN NaN
    ELSE LET g == GCD(x[2], y[2])
             l == (x[2] \div g) * y[2]
         IN  Q(x[1] * (l \div x[2]) + y[1] * (l \div y[2]), l)

RSub(x, y) == RAdd(x, RNeg(y))

RMul(x, y) ==
    IF IsNaN(x) \/ IsNaN(y) THEN NaN
    ELSE LET g1 == GCD(Abs(x[1]), y[2])
             g2 == GCD(Abs(y[1]), x[2])
         IN  <<(x[1] \div g1) * (y[1] \div g2), (x[2] \div g2) * (y[2] \div g1)>>

\* x / y for y # 0 (every division of the code by a possibly-zero value is
\* guarded or raises before it; see Remap and np_trendflex)
RDiv(x, y) ==
    IF IsNaN(x) \/ IsNaN(y) \/ y[1] = 0 THEN NaN
    ELSE RMul(x, <<Sgn(y[1]) * y[2], Abs(y[1])>>)

\* IEEE comparisons: every ordered comparison with NaN is false, NaN # x is true
RLt(x, y) == ~IsNaN(x) /\ ~IsNaN(y) /\ x[1] * y[2] < y[1] * x[2]

RLe(x, y) == ~IsNaN(x) /\ ~IsNaN(y) /\ x[1] * y[2] <= y[1] * x[2]

RGt(x, y) == RLt(y, x)

RGe(x, y) == RLe(y, x)

RNe(x, y) == IsNaN(x) \/ IsNaN(y) \/ x # y

RZero == I(0)

\* floor(x * scale) for x >= 0, without overflowing on a large denominator
Scaled(x, scale) ==
    IF x[2] < scale THEN (x[1] * scale) \div x[2]
    ELSE x[1] \div (x[2] \div scale)

\* int(x): truncation toward zero
Trunc(x) == Sgn(x[1]) * (Abs(x[1]) \div x[2])

-----------------------------------------------------------------------------
(* Python values as the wrappers test them.                                *)

PyNone == [t |-> "none", v |-> RZero, s |-> ""]

PyInt(i) == [t |-> "int", v |-> I(i), s |-> ""]

PyFloat(x) == [t |-> "float", v |-> x, s |-> ""]

PyBool(b) == [t |-> "bool", v |-> IF b THEN I(1) ELSE I(0), s |-> ""]

PyStr(str) == [t |-> "str", v |-> RZero, s |-> str]

\* isinstance(p, int): bool is a subclass of int
IsInstInt(p) == p.t \in {"int", "bool"}

IsInstFloat(p) == p.t = "float"

IsInstBool(p) == p.t = "bool"

IsInstStr(p) == p.t = "str"

\* truth value of p: None, zero and "" are false, NaN is true
Truthy(p) ==
    CASE p.t = "none" -> FALSE
      [] p.t = "str" -> p.s # ""
      [] OTHER -> IsNaN(p.v) \/ p.v[1] # 0

-----------------------------------------------------------------------------
(* Series and the helpers of pandas_ta.utils and pandas the wrappers use.  *)

Size(x) == Cardinality(DOMAIN x)

Index(m) == 0 .. (m - 1)

EmptySeries == [i \in Index(0) |-> NaN]

\* verify_series(series, min_length): the series, or None when it is shorter
\* than min_length
VerifySeries(x, min_length) == Size(x) >= min_length

\* get_offset(x): int(x) for an int, otherwise 0
GetOffset(p) == IF IsInstInt(p) THEN Trunc(p.v) ELSE 0

\* Series.shift(k): values move k positions later (earlier for k < 0), the
\* vacated positions are NaN
Shift(x, k) ==
    [i \in DOMAIN x |-> IF (i - k) \in DOMAIN x THEN x[i - k] ELSE NaN]

\* Series.fillna(value)
Fillna(x, value) == [i \in DOMAIN x |-> IF IsNaN(x[i]) THEN value ELSE x[i]]

\* the "fillna" entry of kwargs, when present
FillKw(x, kw) == IF kw.has THEN Fillna(x, kw.value) ELSE x

NoFill == [has |-> FALSE, value |-> RZero]

FillWith(v) == [has |-> TRUE, value |-> v]

-----------------------------------------------------------------------------
(* numpy's exp and cos, to the nearest quarter.                            *)

\* exp(-t) for t >= 0, rounded to quarters: the cuts are ln(8/7), ln(8/5),
\* ln(8/3) and ln 8, in thousandths
ExpNeg(t) ==
    LET u == Scaled(t, 1000)
    IN  IF u < 134 THEN I(1)
        ELSE IF u < 470 THEN Q(3, 4)
        ELSE IF u < 981 THEN Q(1, 2)
        ELSE IF u < 2079 THEN Q(1, 4)
        ELSE I(0)

\* cos(theta) for theta >= 0 radians, rounded to quarters: theta is reduced
\* modulo 2 pi and folded onto [0, pi] in units of 1e-5; the cuts are
\* arccos(k/8) for odd k
Cos(theta) ==
    LET r == Scaled(theta, 100000) % 628319
        h == IF r > 314159 THEN 628319 - r ELSE r
    IN  IF h < 50536 THEN I(1)
        ELSE IF h < 89566 THEN Q(3, 4)
        ELSE IF h < 118640 THEN Q(1, 2)
        ELSE IF h < 144547 THEN Q(1, 4)
        ELSE IF h < 169612 THEN I(0)
        ELSE IF h < 195519 THEN Q(-1, 4)
        ELSE IF h < 224593 THEN Q(-1, 2)
        ELSE IF h < 263623 THEN Q(-3, 4)
        ELSE I(-1)

-----------------------------------------------------------------------------
(* np_trendflex.                                                           *)

\* range(lo, hi)
Range(lo, hi) == lo .. (hi - 1)

\* the coefficients a, b, c of the pre-filter
Coefficients(k, pi, sqrt2) ==
    LET ratio == RDiv(RMul(I(2), sqrt2), I(k))
        a == ExpNeg(RMul(pi, ratio))
        b == RMul(RMul(I(2), a), Cos(RMul(I(180), ratio)))
        c == RAdd(RSub(RMul(a, a), b), I(1))
    IN  [a |-> a, b |-> b, c |-> c]

\* one step of the pre-filter loop
PreFilterStep(x, co, f, i) ==
    RSub(RAdd(RMul(RMul(Q(1, 2), co.c), RAdd(x[i], x[i - 1])),
              RMul(co.b, f[i - 1])),
         RMul(RMul(co.a, co.a), f[i - 2]))

\* for i in range(2, m): _f[i] = ...
RECURSIVE PreFilter(_, _, _, _)
PreFilter(x, co, f, i) ==
    IF i >= Size(x) THEN f
    ELSE PreFilter(x, co, [f EXCEPT ![i] = PreFilterStep(x, co, f, i)], i + 1)

\* for j in range(1, n): _sum += _f[i] - _f[i - j]
RECURSIVE DiffSum(_, _, _, _)
DiffSum(f, i, n, j) ==
    IF j >= n THEN RZero
    ELSE RAdd(RSub(f[i], f[i - j]), DiffSum(f, i, n, j + 1))

\* _sum / sqrt(_ms) with _ms # 0, held as y * |y|: the sign of _sum on the
\* square _sum^2 / _ms; the square root of a negative number is NaN
Normalise(sum, ms) ==
    IF IsNaN(sum) \/ IsNaN(ms) \/ ms[1] < 0 THEN NaN
    ELSE RMul(I(Sgn(sum[1])), RDiv(RMul(sum, sum), ms))

\* a bug: the carried mean square subtracted
NormaliseStepSignSlip(st, f, i, n, alpha) ==
    LET sum == RDiv(DiffSum(f, i, n, 1), I(n))
        ms  == RSub(RMul(RMul(alpha, sum), sum),
                    RMul(RSub(I(1), alpha), st.ms[i - 1]))
    IN  [ms     |-> [st.ms EXCEPT ![i] = ms],
         sum    |-> [st.sum EXCEPT ![i] = sum],
         result |-> IF RNe(ms, RZero)
                    THEN [st.result EXCEPT ![i] = Normalise(sum, ms)]
                    ELSE st.result]

\* a bug: the mean square not carried forward
NormaliseStepNoCarry(st, f, i, n, alpha) ==
    LET sum == RDiv(DiffSum(f, i, n, 1), I(n))
        ms  == RMul(RMul(alpha, sum), sum)
    IN  [ms     |-> [st.ms EXCEPT ![i] = ms],
         sum    |-> [st.sum EXCEPT ![i] = sum],
         result |-> IF RNe(ms, RZero)
                    THEN [st.result EXCEPT ![i] = Normalise(sum, ms)]
                    ELSE st.result]

\* a bug: the division without its guard, 0 / sqrt(0) being NaN
NormaliseStepUnguarded(st, f, i, n, alpha) ==
    LET sum == RDiv(DiffSum(f, i, n, 1), I(n))
        ms  == RAdd(RMul(RMul(alpha, sum), sum),
                    RMul(RSub(I(1), alpha), st.ms[i - 1]))
    IN  [ms     |-> [st.ms EXCEPT ![i] = ms],
         sum    |-> [st.sum EXCEPT ![i] = sum],
         result |-> [st.result EXCEPT ![i] = Normalise(sum, ms)]]

\* one pass of the loop over range(n, m): st holds _ms, the sums and result
NormaliseStep(st, f, i, n, alpha) ==
    LET sum == RDiv(DiffSum(f, i, n, 1), I(n))
        ms  == RAdd(RMul(RMul(alpha, sum), sum),
                    RMul(RSub(I(1), alpha), st.ms[i - 1]))
    IN  [ms     |-> [st.ms EXCEPT ![i] = ms],
         sum    |-> [st.sum EXCEPT ![i] = sum],
         result |-> IF RNe(ms, RZero)
                    THEN [st.result EXCEPT ![i] = Normalise(sum, ms)]
                    ELSE st.result]

RECURSIVE NormaliseLoop(_, _, _, _, _)
NormaliseLoop(st, f, i, n, alpha) ==
    IF i >= Size(f) THEN st
    ELSE NormaliseLoop(NormaliseStep(st, f, i, n, alpha), f, i + 1, n, alpha)

zeros_like(x) == [i \in DOMAIN x |-> RZero]

\* np_trendflex(x, n, k, alpha, pi, sqrt2): the buffers it leaves; sum[i]
\* is the value of _sum at position i, iters the number of passes of the
\* pre-filter loop
np_trendflex(x, n, k, alpha, pi, sqrt2) ==
    LET co == Coefficients(k, pi, sqrt2)
        f  == PreFilter(x, co, zeros_like(x), 2)
        st == NormaliseLoop([ms |-> zeros_like(x), sum |-> zeros_like(x),
                             result |-> zeros_like(x)], f, n, n, alpha)
    IN  [f |-> f, ms |-> st.ms, sum |-> st.sum, result |-> st.result,
         iters |-> Cardinality(Range(2, Size(x)))]

-----------------------------------------------------------------------------
(* Sample inputs.                                                          *)

Vals == {I(-1), I(0), I(1)}

\* every NaN-free series of sample values of length 0 .. MaxLen
NumSeries == UNION {[Index(m) -> Vals] : m \in 0 .. MaxLen}

\* series with missing values
NaNSeries == UNION {[Index(m) -> {NaN, I(1)}] : m \in 1 .. MaxLen}

ShortSeries == NumSeries \cup NaNSeries

ConstSeries(m, v) == [i \in Index(m) |-> v]

NoNaN(x) == \A i \in DOMAIN x : ~IsNaN(x[i])

AllZero(x) == \A i \in DOMAIN x : x[i] = RZero

-----------------------------------------------------------------------------
(* trendflex.                                                              *)

TrendflexLength == 20

TrendflexSmooth == 20

TrendflexAlpha == Q(4, 100)

TrendflexPi == Q(314159, 100000)

TrendflexSqrt2 == Q(1414, 1000)

\* length = int(length) if isinstance(length, int) and length > 0 else 20
\* (and the same for smooth)
PositiveIntOr(p, default) ==
    IF IsInstInt(p) /\ RGt(p.v, RZero) THEN Trunc(p.v) ELSE default

\* a bug: zero let through
NonNegativeFloatOr(p, default) ==
    IF IsInstFloat(p) /\ RGe(p.v, RZero) THEN p.v ELSE default

\* alpha = float(alpha) if isinstance(alpha, float) and alpha > 0 else 0.04
\* (and the same for pi and sqrt2)
PositiveFloatOr(p, default) ==
    IF IsInstFloat(p) /\ RGt(p.v, RZero) THEN p.v ELSE default

\* a bug: one position too few
WarmUpShort(result, length) ==
    [i \in DOMAIN result |-> IF i < length - 1 THEN NaN ELSE result[i]]

\* a bug: one position too many
WarmUpInclusive(result, length) ==
    [i \in DOMAIN result |-> IF i <= length THEN NaN ELSE result[i]]

\* result[:length] = nan
WarmUp(result, length) ==
    [i \in DOMAIN result |-> IF i < length THEN NaN ELSE result[i]]

NoBuffers ==
    [f |-> EmptySeries, ms |-> EmptySeries, sum |-> EmptySeries,
     result |-> EmptySeries, iters |-> 0]

\* what trendflex(close, length, smooth, alpha, pi, sqrt2, offset, **kwargs)
\* computes: engine is the sequence of calls of np_trendflex it made
TrendflexOut(a) ==
    LET length == PositiveIntOr(a.length, TrendflexLength)
        smooth == PositiveIntOr(a.smooth, TrendflexSmooth)
        alpha  == PositiveFloatOr(a.alpha, TrendflexAlpha)
        pi     == PositiveFloatOr(a.pi, TrendflexPi)
        sqrt2  == PositiveFloatOr(a.sqrt2, TrendflexSqrt2)
        offset == GetOffset(a.offset)
    IN  IF ~VerifySeries(a.close, Max2(length, smooth))
        THEN [returned |-> "None", engine |-> <<>>, buf |-> NoBuffers,
              warm |-> EmptySeries, final |-> EmptySeries]
        ELSE LET buf  == np_trendflex(a.close, length, smooth, alpha, pi, sqrt2)
                 warm == WarmUp(buf.result, length)
                 shifted == IF offset # 0 THEN Shift(warm, offset) ELSE warm
             IN  [returned |-> "Series",
                  engine |-> <<[n |-> length, k |-> smooth, alpha |-> alpha,
                                pi |-> pi, sqrt2 |-> sqrt2]>>,
                  buf |-> buf, warm |-> warm,
                  final |-> FillKw(shifted, a.fill)]

\* the all-zero series one longer than the default length
ZeroLong == [i \in Index(TrendflexLength + 1) |-> RZero]

Ramp == [i \in Index(3) |-> I(i - 1)]

\* calls with valid parameters over every short series
TrendflexValidCalls ==
    [close : ShortSeries,
     length : {PyInt(1), PyInt(2), PyInt(3)},
     smooth : {PyInt(1), PyInt(2)},
     alpha : {PyFloat(Q(1, 2)), PyFloat(I(1)), PyFloat(I(2))},
     pi : {PyNone},
     sqrt2 : {PyNone},
     offset : {PyNone},
     fill : {NoFill}]
    \cup
    [close : ShortSeries,
     length : {PyInt(1), PyInt(2), PyInt(3)},
     smooth : {PyInt(1), PyInt(2)},
     alpha : {PyFloat(Q(1, 2)), PyFloat(I(1)), PyFloat(I(2))},
     pi : {PyFloat(Q(693147, 1000000))},
     sqrt2 : {PyFloat(I(1))},
     offset : {PyNone},
     fill : {NoFill}]

\* calls with absent, wrongly typed, zero, negative and valid parameters
TrendflexRawCalls ==
    [close : {ZeroLong, Ramp},
     length : {PyNone, PyInt(0), PyInt(-1), PyFloat(I(2)), PyInt(2), PyBool(TRUE)},
     smooth : {PyNone, PyInt(0), PyStr("2"), PyInt(1)},
     alpha : {PyNone, PyInt(1), PyFloat(RZero), PyFloat(Q(-1, 2)),
              PyFloat(NaN), PyFloat(Q(1, 2))},
     pi : {PyNone, PyFloat(RZero), PyFloat(I(3))},
     sqrt2 : {PyNone, PyInt(1), PyFloat(Q(3, 2))},
     offset : {PyNone},
     fill : {NoFill}]

\* calls with an offset and a fill value
TrendflexPostCalls ==
    [close : {Ramp, ConstSeries(MaxLen, I(1))},
     length : {PyInt(1), PyInt(2)},
     smooth : {PyInt(1)},
     alpha : {PyFloat(Q(1, 2))},
     pi : {PyNone},
     sqrt2 : {PyNone},
     offset : {PyNone, PyInt(1), PyInt(-1), PyFloat(I(1))},
     fill : {NoFill, FillWith(RZero)}]

TrendflexCalls ==
    TrendflexValidCalls \cup TrendflexRawCalls \cup TrendflexPostCalls

Idle == [none |-> TRUE]

Trendflex ==
    /\ pc = "idle"
    /\ \E a \in TrendflexCalls :
          /\ fn' = "trendflex"
          /\ args' = a
          /\ out' = TrendflexOut(a)
    /\ pc' = "done"
    /\ UNCHANGED Imports

-----------------------------------------------------------------------------
(* Backend selection, shared by stdev, stochf, t3 and hlc3.                *)

\* a bug: an absent preference taken as "do not prefer"
ModeTalStrict(talib) == IsInstBool(talib) /\ Truthy(talib)

\* mode_tal = bool(talib) if isinstance(talib, bool) else True
ModeTal(talib) == IF IsInstBool(talib) THEN Truthy(talib) ELSE TRUE

\* if Imports["talib"] and mode_tal:
UseTalib(imports, mode_tal) == imports["talib"] /\ mode_tal

TalibArgs == {PyNone, PyBool(TRUE), PyBool(FALSE), PyInt(0), PyStr("no")}

\* a wrapper that returned before it calculated anything
ReturnedNone == [returned |-> "None", backend |-> "none", calls |-> <<>>]

-----------------------------------------------------------------------------
(* stdev.  The TA-Lib function and variance are recorded as calls; the     *)
(* series they return are not part of the state.                           *)

StdevLength == 30

StdevDdof == 1

\* if isinstance(ddof, int) and ddof >= 0 and ddof < length: ... else: ddof = 1
ValidDdof(ddof, length) ==
    IF IsInstInt(ddof) /\ RGe(ddof.v, RZero) /\ RLt(ddof.v, I(length))
    THEN Trunc(ddof.v) ELSE StdevDdof

\* a bug: a non-default ddof bypasses TA-Lib
StdevUseTalibBypass(imports, mode_tal, ddof) ==
    UseTalib(imports, mode_tal) /\ ddof = StdevDdof

\* the backend stdev calculates with
StdevUseTalib(imports, mode_tal, ddof) == UseTalib(imports, mode_tal)

StdevOut(imports, a) ==
    LET length   == PositiveIntOr(a.length, StdevLength)
        ddof     == ValidDdof(a.ddof, length)
        mode_tal == ModeTal(a.talib)
        talib    == StdevUseTalib(imports, mode_tal, ddof)
    IN  IF ~VerifySeries(a.close, length) THEN ReturnedNone
        ELSE [returned |-> "Series",
              backend |-> IF talib THEN "talib" ELSE "algo",
              calls |-> IF talib
                        THEN <<[f |-> "STDDEV", length |-> length]>>
                        ELSE <<[f |-> "variance", length |-> length,
                                ddof |-> ddof, talib |-> mode_tal]>>]

StdevCalls ==
    [close : {ConstSeries(m, I(1)) : m \in {1, MaxLen, StdevLength}},
     length : {PyNone, PyInt(0), PyInt(2), PyInt(3)},
     ddof : {PyNone, PyInt(-1), PyInt(0), PyInt(1), PyInt(2), PyInt(3),
             PyFloat(RZero)},
     talib : TalibArgs]

Stdev ==
    /\ pc = "idle"
    /\ \E a \in StdevCalls :
          /\ fn' = "stdev"
          /\ args' = a
          /\ out' = StdevOut(Imports, a)
    /\ pc' = "done"
    /\ UNCHANGED Imports

-----------------------------------------------------------------------------
(* stochf and tsi.  The TA-Lib function, ema and the moving-average        *)
(* dispatcher ma are recorded as calls.                                    *)

StochfK == 14

StochfD == 3

TsiFast == 13

TsiSlow == 25

TsiSignal == 13

TsiScalar == 100

\* k = k if k and k > 0 else 14 (and int(...) of it in tsi and t3)
TruthyPositiveOr(p, default) ==
    IF Truthy(p) /\ RGt(p.v, RZero) THEN Trunc(p.v) ELSE default

\* mamode = mamode if isinstance(mamode, str) else "sma"
StochfMamode(mamode) == IF IsInstStr(mamode) THEN mamode.s ELSE "sma"

\* a bug: an unrecognised mode replaced by the default
TsiMamodeKnown(mamode) ==
    IF IsInstStr(mamode) /\ mamode.s \in {"sma", "ema", "t3"}
    THEN mamode.s ELSE "ema"

\* mamode = mamode if isinstance(mamode, str) else "ema"
TsiMamode(mamode) == IF IsInstStr(mamode) THEN mamode.s ELSE "ema"

MamodeArgs ==
    {PyNone, PyInt(1), PyBool(TRUE), PyStr("sma"), PyStr("ema"), PyStr("t3"),
     PyStr("bogus"), PyStr("")}

StochfOut(imports, a) ==
    LET k == TruthyPositiveOr(a.k, StochfK)
        d == TruthyPositiveOr(a.d, StochfD)
        length == Max2(k, d)
        mamode == StochfMamode(a.mamode)
        mode_tal == ModeTal(a.talib)
    IN  IF \/ ~VerifySeries(a.high, length)
           \/ ~VerifySeries(a.low, length)
           \/ ~VerifySeries(a.close, length)
        THEN ReturnedNone
        ELSE IF UseTalib(imports, mode_tal)
        THEN [returned |-> "DataFrame", backend |-> "talib",
              calls |-> <<[f |-> "STOCHF", k |-> k, d |-> d, tal_ma |-> mamode]>>]
        ELSE [returned |-> "DataFrame", backend |-> "algo",
              calls |-> <<[f |-> "ma", mode |-> mamode, length |-> d,
                           talib |-> mode_tal]>>]

StochfCalls ==
    [high : {ConstSeries(m, I(1)) : m \in {MaxLen, StochfK}},
     low : {ConstSeries(m, I(-1)) : m \in {1, StochfK}},
     close : {ConstSeries(StochfK, I(0))},
     k : {PyNone, PyInt(0), PyInt(2)},
     d : {PyNone, PyInt(-1), PyInt(2)},
     mamode : MamodeArgs,
     talib : TalibArgs]

Stochf ==
    /\ pc = "idle"
    /\ \E a \in StochfCalls :
          /\ fn' = "stochf"
          /\ args' = a
          /\ out' = StochfOut(Imports, a)
    /\ pc' = "done"
    /\ UNCHANGED Imports

\* get_drift(x): int(x) for a non-zero int, otherwise 1
GetDrift(p) == IF IsInstInt(p) /\ p.v # RZero THEN Trunc(p.v) ELSE 1

TsiOut(a) ==
    LET fast   == TruthyPositiveOr(a.fast, TsiFast)
        slow   == TruthyPositiveOr(a.slow, TsiSlow)
        signal == TruthyPositiveOr(a.signal, TsiSignal)
        scalar == IF Truthy(a.scalar) THEN a.scalar.v ELSE I(TsiScalar)
        drift  == GetDrift(a.drift)
        mamode == TsiMamode(a.mamode)
    IN  IF ~VerifySeries(a.close, Max2(fast, slow)) THEN ReturnedNone
        ELSE [returned |-> "DataFrame", backend |-> "algo",
              calls |-> <<[f |-> "diff", drift |-> drift],
                          [f |-> "ema", of |-> "diff", length |-> slow],
                          [f |-> "ema", of |-> "slow_ema", length |-> fast],
                          [f |-> "ema", of |-> "abs_diff", length |-> slow],
                          [f |-> "ema", of |-> "abs_slow_ema", length |-> fast],
                          [f |-> "ma", mode |-> mamode, length |-> signal,
                           scalar |-> scalar]>>]

TsiCalls ==
    [close : {ConstSeries(m, I(1)) : m \in {MaxLen, TsiSlow}},
     fast : {PyNone, PyInt(2)},
     slow : {PyNone, PyInt(0), PyInt(3)},
     signal : {PyNone, PyInt(2)},
     scalar : {PyNone, PyFloat(I(1))},
     mamode : MamodeArgs,
     drift : {PyNone, PyInt(2)}]

Tsi ==
    /\ pc = "idle"
    /\ \E a \in TsiCalls :
          /\ fn' = "tsi"
          /\ args' = a
          /\ out' = TsiOut(a)
    /\ pc' = "done"
    /\ UNCHANGED Imports

-----------------------------------------------------------------------------
(* hlc3.                                                                   *)

\* avg = (high.values + low.values + close.values) / 3.0
Hlc3Avg(high, low, close) ==
    [i \in DOMAIN close |-> RDiv(RAdd(RAdd(high[i], low[i]), close[i]), I(3))]

Hlc3Out(imports, a) ==
    LET offset == GetOffset(a.offset)
        mode_tal == ModeTal(a.talib)
    IN  IF UseTalib(imports, mode_tal)
        THEN [returned |-> "Series", backend |-> "talib",
              calls |-> <<[f |-> "TYPPRICE"]>>]
        ELSE LET hlc3 == Hlc3Avg(a.high, a.low, a.close)
             IN  [returned |-> "Series", backend |-> "algo", calls |-> <<>>,
                  result |-> IF offset # 0 THEN Shift(hlc3, offset) ELSE hlc3]

\* high, low and close share their index
Hlc3Calls ==
    UNION {[high : [Index(m) -> {I(1), I(2)}],
            low : [Index(m) -> {I(-1), I(0)}],
            close : {ConstSeries(m, I(1))},
            talib : TalibArgs,
            offset : {PyNone, PyInt(1)}] : m \in 0 .. (MaxLen - 2)}

Hlc3 ==
    /\ pc = "idle"
    /\ \E a \in Hlc3Calls :
          /\ fn' = "hlc3"
          /\ args' = a
          /\ out' = Hlc3Out(Imports, a)
    /\ pc' = "done"
    /\ UNCHANGED Imports

-----------------------------------------------------------------------------
(* t3, with the exponential average ema it cascades.                       *)

T3Length == 10

T3A == Q(7, 10)

\* largest denominator of the sample values of a
MaxDen == 4

\* mean of the values of x at positions 0 .. length-1 that are not NaN
RECURSIVE SumTo(_, _)
SumTo(x, i) ==
    IF i < 0 THEN [sum |-> RZero, count |-> 0]
    ELSE LET rest == SumTo(x, i - 1)
         IN  IF IsNaN(x[i]) THEN rest
             ELSE [sum |-> RAdd(rest.sum, x[i]), count |-> rest.count + 1]

MeanOfFirst(x, length) ==
    LET t == SumTo(x, length - 1)
    IN  IF t.count = 0 THEN NaN ELSE RDiv(t.sum, I(t.count))

\* close.ewm(span=length, adjust=False).mean(): NaN up to the first value,
\* then y[i] = (1 - w) * y[i-1] + w * x[i] with w = 2 / (length + 1); a
\* missing x[i] keeps y[i-1]
RECURSIVE Ewm(_, _, _, _)
Ewm(x, length, y, i) ==
    IF i >= Size(x) THEN y
    ELSE LET w == Q(2, length + 1)
             prev == IF i = 0 THEN NaN ELSE y[i - 1]
             cur == IF IsNaN(prev) THEN x[i]
                    ELSE IF IsNaN(x[i]) THEN prev
                    ELSE RAdd(RMul(RSub(I(1), w), prev), RMul(w, x[i]))
         IN  Ewm(x, length, [y EXCEPT ![i] = cur], i + 1)

\* ema(close, length) on its algorithmic path: the first length-1 values
\* are dropped and position length-1 is seeded with the mean of the first
\* length values
Ema(x, length) ==
    LET seeded == [i \in DOMAIN x |->
                     IF i < length - 1 THEN NaN
                     ELSE IF i = length - 1 THEN MeanOfFirst(x, length)
                     ELSE x[i]]
    IN  Ewm(seeded, length, seeded, 0)

\* a = float(a) if a and a > 0 and a < 1 else 0.7
T3Factor(p) ==
    IF Truthy(p) /\ RGt(p.v, RZero) /\ RLt(p.v, I(1)) THEN p.v ELSE T3A

\* a bug: a factor lost in c2
T3CoefficientsSlip(a) ==
    LET a2 == RMul(a, a)
        a3 == RMul(a2, a)
    IN  [c1 |-> RMul(RNeg(a), a2),
         c2 |-> RAdd(RMul(I(3), a2), a3),
         c3 |-> RSub(RSub(RMul(I(-6), a2), RMul(I(3), a)), RMul(I(3), a3)),
         c4 |-> RAdd(RAdd(RAdd(a3, RMul(I(3), a2)), RMul(I(3), a)), I(1))]

\* c1 .. c4
T3Coefficients(a) ==
    LET a2 == RMul(a, a)
        a3 == RMul(a2, a)
    IN  [c1 |-> RMul(RNeg(a), a2),
         c2 |-> RAdd(RMul(I(3), a2), RMul(I(3), a3)),
         c3 |-> RSub(RSub(RMul(I(-6), a2), RMul(I(3), a)), RMul(I(3), a3)),
         c4 |-> RAdd(RAdd(RAdd(a3, RMul(I(3), a2)), RMul(I(3), a)), I(1))]

\* t3 = c1 * e6 + c2 * e5 + c3 * e4 + c4 * e3
T3Combine(c, e3, e4, e5, e6) ==
    [i \in DOMAIN e3 |->
        RAdd(RAdd(RAdd(RMul(c.c1, e6[i]), RMul(c.c2, e5[i])),
                  RMul(c.c3, e4[i])),
             RMul(c.c4, e3[i]))]

T3Out(imports, p) ==
    LET length == TruthyPositiveOr(p.length, T3Length)
        a == T3Factor(p.a)
        offset == GetOffset(p.offset)
        mode_tal == ModeTal(p.talib)
    IN  IF ~VerifySeries(p.close, length)
        THEN ReturnedNone
        ELSE IF UseTalib(imports, mode_tal)
        THEN [returned |-> "Series", backend |-> "talib",
              calls |-> <<[f |-> "T3", length |-> length, a |-> a]>>]
        ELSE LET c  == T3Coefficients(a)
                 e1 == Ema(p.close, length)
                 e2 == Ema(e1, length)
                 e3 == Ema(e2, length)
                 e4 == Ema(e3, length)
                 e5 == Ema(e4, length)
                 e6 == Ema(e5, length)
                 t3 == T3Combine(c, e3, e4, e5, e6)
             IN  [returned |-> "Series", backend |-> "algo",
                  calls |-> [j \in 1 .. 6 |->
                               [f |-> "ema", length |-> length,
                                talib |-> mode_tal]],
                  a |-> a, coef |-> c, raw |-> t3,
                  result |-> IF offset # 0 THEN Shift(t3, offset) ELSE t3]

RampSeries(m) == [i \in Index(m) |-> I(i - 1)]

T3Series ==
    {ConstSeries(m, v) : m \in 0 .. MaxLen, v \in {I(-1), I(0), I(2)}}
    \cup {RampSeries(m) : m \in 2 .. MaxLen}
    \cup {ConstSeries(T3Length, Q(3, 2))}

T3Calls ==
    [close : T3Series,
     length : {PyNone, PyInt(0), PyInt(1), PyInt(2), PyInt(3)},
     a : {PyFloat(Q(n, d)) : n \in 0 .. MaxDen, d \in 2 .. MaxDen}
         \cup {PyNone, PyInt(1)},
     talib : TalibArgs,
     offset : {PyNone, PyInt(1)}]

T3 ==
    /\ pc = "idle"
    /\ \E a \in T3Calls :
          /\ fn' = "t3"
          /\ args' = a
          /\ out' = T3Out(Imports, a)
    /\ pc' = "done"
    /\ UNCHANGED Imports

-----------------------------------------------------------------------------
(* remap.                                                                  *)

RemapFromMin == RZero

RemapFromMax == I(100)

RemapToMin == I(-1)

RemapToMax == I(1)

\* from_min = float(from_min) if from_min and from_min != 0.0 else 0.0
\* (and the same for from_max, to_min and to_max)
RemapBound(p, default) ==
    IF Truthy(p) /\ RNe(p.v, RZero) THEN p.v ELSE default

\* to_min + (trange / frange) * (close.values - from_min)
RemapValues(close, from_min, frange, to_min, trange) ==
    [i \in DOMAIN close |->
        RAdd(to_min, RMul(RDiv(trange, frange), RSub(close[i], from_min)))]

\* what remap(close, from_min, from_max, to_min, to_max, offset, **kwargs)
\* computes; raw is the result before the offset and the fill.  frange and
\* trange are Python floats, so a zero frange raises ZeroDivisionError
RemapOut(a) ==
    LET from_min == RemapBound(a.from_min, RemapFromMin)
        from_max == RemapBound(a.from_max, RemapFromMax)
        to_min == RemapBound(a.to_min, RemapToMin)
        to_max == RemapBound(a.to_max, RemapToMax)
        offset == GetOffset(a.offset)
        frange == RSub(from_max, from_min)
        trange == RSub(to_max, to_min)
        bounds == [from_min |-> from_min, from_max |-> from_max,
                   to_min |-> to_min, to_max |-> to_max]
    IN  IF frange = RZero
        THEN [returned |-> "ZeroDivisionError", bounds |-> bounds,
              raw |-> EmptySeries, result |-> EmptySeries]
        ELSE LET raw == RemapValues(a.close, from_min, frange, to_min, trange)
                 shifted == IF offset # 0 THEN Shift(raw, offset) ELSE raw
             IN  [returned |-> "Series", bounds |-> bounds, raw |-> raw,
                  result |-> FillKw(shifted, a.fill)]

RemapSeries ==
    [Index(1) -> {I(-1), I(0), I(1), I(50), I(100)}]
    \cup {RampSeries(m) : m \in 2 .. MaxLen}

RemapCalls ==
    [close : RemapSeries,
     from_min : {PyNone, PyInt(0), PyInt(-1), PyInt(100)},
     from_max : {PyNone, PyInt(0), PyInt(1), PyFloat(I(50))},
     to_min : {PyNone, PyInt(0), PyFloat(I(-1)), PyInt(1)},
     to_max : {PyNone, PyInt(0), PyFloat(I(1)), PyInt(100)},
     offset : {PyNone, PyInt(1)},
     fill : {NoFill, FillWith(RZero)}]

Remap ==
    /\ pc = "idle"
    /\ \E a \in RemapCalls :
          /\ fn' = "remap"
          /\ args' = a
          /\ out' = RemapOut(a)
    /\ pc' = "done"
    /\ UNCHANGED Imports

-----------------------------------------------------------------------------
(* ifisher.                                                                *)

IfisherAmp == I(1)

IfisherSignalOffset == 1

\* amp = float(amp) if amp and amp != 0 else 1.0
IfisherAmpOf(p) == IF Truthy(p) /\ RNe(p.v, RZero) THEN p.v ELSE IfisherAmp

\* signal_offset = int(signal_offset) if signal_offset and signal_offset > 0 else 1
IfisherSignalOffsetOf(p) == TruthyPositiveOr(p, IfisherSignalOffset)

\* all(logical_and(np_close >= -1, np_close <= 1))
AllInUnitRange(x) ==
    \A i \in DOMAIN x : RGe(x[i], I(-1)) /\ RLe(x[i], I(1))

\* numpy max and min of a non-empty array: NaN when a value is NaN
NpMax(x) ==
    IF \E i \in DOMAIN x : IsNaN(x[i]) THEN NaN
    ELSE CHOOSE v \in {x[i] : i \in DOMAIN x} : \A j \in DOMAIN x : RLe(x[j], v)

NpMin(x) ==
    IF \E i \in DOMAIN x : IsNaN(x[i]) THEN NaN
    ELSE CHOOSE v \in {x[i] : i \in DOMAIN x} : \A j \in DOMAIN x : RLe(v, x[j])

\* (exp(z) - 1) / (exp(z) + 1), rounded to quarters: the cuts are
\* ln(9/7), ln(11/5), ln(13/3) and ln 15, in thousandths
InverseFisher(z) ==
    IF IsNaN(z) THEN NaN
    ELSE LET u == Scaled(<<Abs(z[1]), z[2]>>, 1000)
             q == IF u < 252 THEN 0
                  ELSE IF u < 789 THEN 1
                  ELSE IF u < 1467 THEN 2
                  ELSE IF u < 2709 THEN 3
                  ELSE 4
         IN  Q(Sgn(z[1]) * q, 4)

\* the two shifts ifisher applies to a column
IfisherShift(x, offset, signal_offset) ==
    LET first == IF offset # 0 THEN Shift(x, offset) ELSE x
    IN  IF signal_offset # 0 THEN Shift(first, signal_offset) ELSE first

IfisherOut(a) ==
    LET amp == IfisherAmpOf(a.amp)
        signal_offset == IfisherSignalOffsetOf(a.signal_offset)
        offset == GetOffset(a.offset)
        remapped == ~AllInUnitRange(a.close)
        close_map == RemapOut([close |-> a.close,
                               from_min |-> PyFloat(NpMin(a.close)),
                               from_max |-> PyFloat(NpMax(a.close)),
                               to_min |-> PyInt(-1), to_max |-> PyInt(1),
                               offset |-> PyNone, fill |-> NoFill])
    IN  IF remapped /\ close_map.returned # "Series"
        THEN [returned |-> close_map.returned, remapped |-> remapped,
              np_close |-> EmptySeries, result |-> EmptySeries,
              inv_fisher |-> EmptySeries, signal |-> EmptySeries]
        ELSE LET np_close == IF remapped THEN close_map.result ELSE a.close
                 result == [i \in DOMAIN np_close |->
                              InverseFisher(RMul(amp, np_close[i]))]
             IN  [returned |-> "DataFrame", remapped |-> remapped,
                  np_close |-> np_close, result |-> result,
                  inv_fisher |->
                      FillKw(IfisherShift(result, offset, signal_offset), a.fill),
                  signal |->
                      FillKw(IfisherShift(result, offset, signal_offset), a.fill)]

IfisherSeries ==
    UNION {[Index(m) -> {I(-2), I(0), Q(1, 2), I(3)}] : m \in 0 .. (MaxLen - 1)}
    \cup {[i \in Index(2) |-> IF i = 0 THEN NaN ELSE I(3)]}

IfisherCalls ==
    [close : IfisherSeries,
     amp : {PyNone, PyFloat(I(2))},
     signal_offset : {PyNone, PyInt(0), PyInt(-1), PyInt(1), PyInt(2)},
     offset : {PyNone, PyInt(1), PyInt(-1)},
     fill : {NoFill}]
    \cup
    [close : {RampSeries(3)},
     amp : {PyNone, PyInt(0)},
     signal_offset : {PyNone, PyInt(-1), PyInt(2)},
     offset : {PyNone, PyInt(1)},
     fill : {FillWith(RZero)}]

Ifisher ==
    /\ pc = "idle"
    /\ \E a \in IfisherCalls :
          /\ fn' = "ifisher"
          /\ args' = a
          /\ out' = IfisherOut(a)
    /\ pc' = "done"
    /\ UNCHANGED Imports

-----------------------------------------------------------------------------
(* The process.                                                            *)

\* Imports["talib"] is decided once, when the package is imported
Init ==
    /\ Imports \in [{"talib"} -> BOOLEAN]
    /\ pc = "idle"
    /\ fn = "none"
    /\ args = Idle
    /\ out = Idle

\* a wrapper returns: its arguments and locals are discarded
Return ==
    /\ pc = "done"
    /\ pc' = "idle"
    /\ fn' = "none"
    /\ args' = Idle
    /\ out' = Idle
    /\ UNCHANGED Imports

Next ==
    \/ Stdev
    \/ Stochf
    \/ Tsi
    \/ Hlc3
    \/ T3
    \/ Remap
    \/ Ifisher
    \/ Trendflex
    \/ Return

Spec == Init /\ [][Next]_vars

-----------------------------------------------------------------------------
(* Properties.                                                             *)

Done(f) == pc = "done" /\ fn = f

\* the caller's backend preference: its boolean, or true when absent or not
\* a boolean
Preferred(talib) == IF talib.t = "bool" THEN talib.v = I(1) ELSE TRUE

\* the length and ddof stdev works with, and whether the caller's ddof is a
\* valid value other than the default
StdevLengthOf(a) == PositiveIntOr(a.length, StdevLength)

NonDefaultDdof(a) ==
    /\ a.ddof.t = "int"
    /\ a.ddof.v[1] >= 0
    /\ a.ddof.v[1] < StdevLengthOf(a)
    /\ a.ddof.v[1] # 1

\* C1, as claimed: in stdev a valid ddof other than 1 bypasses TA-Lib, so
\* the variance-based path is used even when TA-Lib is available and
\* preferred.
C1_DdofBypassesTalib ==
    (Done("stdev") /\ out.returned = "Series" /\ NonDefaultDdof(args))
        => out.backend = "algo"

\* C1, amended: in stdev a valid ddof other than 1 does not change the
\* backend.  TA-Lib's STDDEV is called, with the length alone, exactly when
\* TA-Lib is available and preferred; the ddof reaches the calculation (as
\* variance's ddof) only on the algorithmic path.
C1_DdofNeedsAlgorithmicPath ==
    (Done("stdev") /\ out.returned = "Series" /\ NonDefaultDdof(args))
        => /\ out.backend = "talib" <=> (Imports["talib"] /\ Preferred(args.talib))
           /\ out.backend = "talib"
                 => out.calls = <<[f |-> "STDDEV", length |-> StdevLengthOf(args)]>>
           /\ out.backend # "talib"
                 => /\ out.backend = "algo"
                    /\ Len(out.calls) = 1
                    /\ out.calls[1].f = "variance"
                    /\ out.calls[1].ddof = args.ddof.v[1]

\* C1 witness: a non-default ddof and TA-Lib's STDDEV called all the same
C1_Witness ==
    /\ Done("stdev")
    /\ NonDefaultDdof(args)
    /\ args.ddof = PyInt(0)
    /\ out.backend = "talib"
    /\ out.calls[1].f = "STDDEV"

\* C2: in stochf, stdev, t3 and hlc3 the TA-Lib backend is used if and only
\* if Imports["talib"] is true and the preference is true; otherwise the
\* algorithmic path is used, and no call raises.  (A series shorter than
\* the indicator needs returns None before any backend is chosen.)
C2_BackendSelection ==
    (pc = "done" /\ fn \in {"stochf", "stdev", "t3", "hlc3"})
        => /\ out.returned \in {"None", "Series", "DataFrame"}
           /\ out.returned = "None" <=> out.backend = "none"
           /\ out.returned # "None"
                 => /\ out.backend \in {"talib", "algo"}
                    /\ out.backend = "talib"
                          <=> (Imports["talib"] /\ Preferred(args.talib))
           /\ out.backend = "talib"
                 => /\ Len(out.calls) = 1
                    /\ out.calls[1].f \in {"STOCHF", "STDDEV", "T3", "TYPPRICE"}
           /\ out.backend = "algo"
                 => \A j \in DOMAIN out.calls :
                       out.calls[j].f \in {"ma", "variance", "ema"}

\* C2 witness: TA-Lib preferred and unavailable, the algorithmic path taken
C2_Witness ==
    /\ Done("stochf")
    /\ ~Imports["talib"]
    /\ args.talib = PyBool(TRUE)
    /\ out.backend = "algo"
    /\ out.returned = "DataFrame"

\* the window length the engine was called with
EngineN == out.engine[1].n

\* C3: an all-zero input longer than n gives NaN at every position below n
\* and exactly 0 at every position from n on, for every n, k and alpha the
\* engine is called with.
C3_AllZeroInput ==
    (/\ Done("trendflex")
     /\ out.returned = "Series"
     /\ AllZero(args.close)
     /\ Size(args.close) > EngineN)
        => \A i \in DOMAIN out.warm :
              /\ i < EngineN => IsNaN(out.warm[i])
              /\ i >= EngineN => out.warm[i] = RZero

\* C3 witness: an all-zero input with positions on both sides of n and a
\* zero mean square there
C3_Witness ==
    /\ Done("trendflex")
    /\ AllZero(args.close)
    /\ Size(args.close) = 4
    /\ EngineN = 2
    /\ out.buf.ms[3] = RZero
    /\ out.warm[3] = RZero
    /\ IsNaN(out.warm[1])

\* C4, as claimed: for a NaN-free input the output before offset and fill
\* is NaN exactly at the positions below n.
C4_ExactlyNLeadingNaNs ==
    (Done("trendflex") /\ out.returned = "Series" /\ NoNaN(args.close))
        => \A i \in DOMAIN out.warm : IsNaN(out.warm[i]) <=> i < EngineN

\* C4, amended: for a NaN-free input the output before offset and fill has
\* exactly n leading NaNs, whatever k and alpha are: every position below n
\* is NaN and position n is not.  The positions after n are not NaN either
\* when alpha <= 1.
C4_LeadingNaNs ==
    (Done("trendflex") /\ out.returned = "Series" /\ NoNaN(args.close))
        => \A i \in DOMAIN out.warm :
              /\ i < EngineN => IsNaN(out.warm[i])
              /\ i = EngineN => ~IsNaN(out.warm[i])
              /\ (i > EngineN /\ RLe(out.engine[1].alpha, I(1)))
                    => ~IsNaN(out.warm[i])

\* C4 witness: alpha above 1, a negative mean square after position n, and
\* position n defined all the same
C4_Witness ==
    /\ Done("trendflex")
    /\ NoNaN(args.close)
    /\ Size(args.close) = 4
    /\ EngineN = 2
    /\ out.engine[1].alpha = I(2)
    /\ IsNaN(out.warm[1])
    /\ ~IsNaN(out.warm[2]) /\ out.warm[2] # RZero
    /\ out.buf.ms[3][1] < 0

\* C5, as claimed: for an accepted input of length at most 2 the pre-filter
\* loop does not iterate and every position of the output is NaN.
C5_ShortInputAllNaN ==
    (Done("trendflex") /\ out.returned = "Series" /\ Size(args.close) <= 2)
        => /\ out.buf.iters = 0
           /\ \A i \in DOMAIN out.warm : IsNaN(out.warm[i])

\* C5, amended: for an accepted input of length at most 2 the pre-filter
\* loop does not iterate, every position below n is NaN and every position
\* from n on is exactly 0; so the whole output is NaN except for n = 1 and
\* m = 2, where position 1 is 0.
C5_ShortInputWarmUp ==
    (Done("trendflex") /\ out.returned = "Series" /\ Size(args.close) <= 2)
        => /\ out.buf.iters = 0
           /\ out.buf.f = zeros_like(args.close)
           /\ \A i \in DOMAIN out.warm :
                 /\ i < EngineN => IsNaN(out.warm[i])
                 /\ i >= EngineN => out.warm[i] = RZero
           /\ (\A i \in DOMAIN out.warm : IsNaN(out.warm[i]))
                 <=> ~(EngineN = 1 /\ Size(args.close) = 2)

\* C5 witness: two non-zero values, n = 1, and position 1 is 0
C5_Witness ==
    /\ Done("trendflex")
    /\ args.close = ConstSeries(2, I(1))
    /\ EngineN = 1
    /\ out.buf.iters = 0
    /\ out.warm[1] = RZero

\* the modes the wrapper handed to the dispatcher ma
DispatcherModes ==
    {out.calls[j].mode : j \in {i \in DOMAIN out.calls : out.calls[i].f = "ma"}}

\* C6, as claimed: in stochf and tsi a mode that is absent or not a string
\* becomes "sma", and a string mode reaches the dispatcher unchanged.
C6_DefaultIsSimple ==
    (pc = "done" /\ fn \in {"stochf", "tsi"})
        => DispatcherModes \subseteq
              {IF args.mamode.t = "str" THEN args.mamode.s ELSE "sma"}

\* C6, amended: a mode that is absent or not a string becomes the
\* wrapper's own default, "sma" in stochf and "ema" in tsi; a string mode,
\* recognised or not, reaches the dispatcher unchanged.  tsi calls the
\* dispatcher whenever it calculates, stochf on its algorithmic path.
C6_DefaultPerWrapper ==
    (pc = "done" /\ fn \in {"stochf", "tsi"})
        => /\ DispatcherModes \subseteq
                 {IF args.mamode.t = "str" THEN args.mamode.s
                  ELSE IF fn = "stochf" THEN "sma" ELSE "ema"}
           /\ DispatcherModes # {}
                 <=> \/ fn = "tsi" /\ out.returned # "None"
                     \/ fn = "stochf" /\ out.backend = "algo"

\* C6 witness: tsi without a mode calls the dispatcher with "ema"
C6_Witness ==
    /\ Done("tsi")
    /\ args.mamode = PyNone
    /\ DispatcherModes = {"ema"}

\* a bound of remap as documented: the caller's value, or the documented
\* default when omitted
Documented(p, default) == IF p.t = "none" THEN default ELSE p.v

\* C7, as claimed: with from_min # from_max, an input equal to from_min
\* gives to_min and an input equal to from_max gives to_max, the omitted
\* bounds being 0, 100, 0 and 100.
C7_RemapEndpoints ==
    LET from_min == Documented(args.from_min, I(0))
        from_max == Documented(args.from_max, I(100))
        to_min == Documented(args.to_min, I(0))
        to_max == Documented(args.to_max, I(100))
    IN  (Done("remap") /\ from_min # from_max)
            => /\ out.returned = "Series"
               /\ \A i \in DOMAIN out.raw :
                     /\ args.close[i] = from_min => out.raw[i] = to_min
                     /\ args.close[i] = from_max => out.raw[i] = to_max

\* the signal offset as documented: the caller's, or -1 when not supplied
DocumentedSignalOffset(p) == IF p.t = "none" THEN -1 ELSE Trunc(p.v)

\* C8, as claimed: the main column is shifted by offset alone and the
\* signal column by offset and then signal_offset.
C8_SignalOffsetShiftsSignal ==
    (Done("ifisher") /\ out.returned = "DataFrame")
        => /\ out.inv_fisher
                 = FillKw(Shift(out.result, GetOffset(args.offset)), args.fill)
           /\ out.signal
                 = FillKw(Shift(Shift(out.result, GetOffset(args.offset)),
                                DocumentedSignalOffset(args.signal_offset)),
                          args.fill)

\* C9: on the algorithmic path of t3 the coefficients sum to 1 for every
\* a, and on a constant input v, each pass of ema returning v from position
\* length-1 on, the result is NaN before that position and exactly v from
\* it on.
C9_T3FixedPoint ==
    (Done("t3") /\ out.backend = "algo")
        => /\ RAdd(RAdd(out.coef.c1, out.coef.c2), RAdd(out.coef.c3, out.coef.c4))
                 = I(1)
           /\ \A v \in {args.close[i] : i \in DOMAIN args.close} :
                 args.close = ConstSeries(Size(args.close), v)
                    => \A i \in DOMAIN out.raw :
                          IF i < out.calls[1].length - 1
                          THEN IsNaN(out.raw[i])
                          ELSE out.raw[i] = v

\* C9 witness: a constant input, a = 2/3, and the value past the warm-up
C9_Witness ==
    /\ Done("t3")
    /\ out.backend = "algo"
    /\ args.close = ConstSeries(4, I(2))
    /\ out.a = Q(2, 3)
    /\ out.calls[1].length = 3
    /\ IsNaN(out.raw[1])
    /\ out.raw[3] = I(2)

\* an int above zero, a float above zero
ValidInt(p) == p.t \in {"int", "bool"} /\ ~IsNaN(p.v) /\ p.v[1] > 0

ValidFloat(p) == p.t = "float" /\ ~IsNaN(p.v) /\ p.v[1] > 0

\* C10: trendflex calls np_trendflex only with n, k, alpha, pi and sqrt2
\* above zero: a valid argument is passed as it is, any other is replaced
\* by its default 20, 20, 0.04, 3.14159 or 1.414.
C10_EngineArguments ==
    Done("trendflex")
        => /\ Len(out.engine) <= 1
           /\ \A j \in DOMAIN out.engine :
                 LET e == out.engine[j]
                 IN  /\ e.n > 0 /\ e.k > 0
                     /\ RGt(e.alpha, RZero) /\ RGt(e.pi, RZero) /\ RGt(e.sqrt2, RZero)
                     /\ e.n = IF ValidInt(args.length) THEN args.length.v[1] ELSE 20
                     /\ e.k = IF ValidInt(args.smooth) THEN args.smooth.v[1] ELSE 20
                     /\ e.alpha = IF ValidFloat(args.alpha) THEN args.alpha.v
                                  ELSE Q(4, 100)
                     /\ e.pi = IF ValidFloat(args.pi) THEN args.pi.v
                               ELSE Q(314159, 100000)
                     /\ e.sqrt2 = IF ValidFloat(args.sqrt2) THEN args.sqrt2.v
                                  ELSE Q(1414, 1000)

\* C10 witness: every argument invalid in its own way, the engine called
\* with the five defaults
C10_Witness ==
    /\ Done("trendflex")
    /\ args.length = PyInt(-1)
    /\ args.smooth = PyStr("2")
    /\ args.alpha = PyInt(1)
    /\ args.pi = PyFloat(RZero)
    /\ args.sqrt2 = PyNone
    /\ out.engine = <<[n |-> 20, k |-> 20, alpha |-> Q(4, 100),
                       pi |-> Q(314159, 100000), sqrt2 |-> Q(1414, 1000)]>>

\* C11, as claimed: when a value of the input lies outside [-1, 1] the
\* input is remapped so that its minimum becomes -1 and its maximum 1, a
\* minimum or maximum of 0 included; otherwise the input is used as it is.
\* (Stated for NaN-free inputs whose minimum and maximum differ.)
C11_RemapOntoUnitRange ==
    (/\ Done("ifisher")
     /\ NoNaN(args.close)
     /\ Size(args.close) > 0
     /\ NpMin(args.close) # NpMax(args.close))
        => /\ out.returned = "DataFrame"
           /\ IF AllInUnitRange(args.close)
              THEN out.np_close = args.close
              ELSE \A i \in DOMAIN args.close :
                      /\ args.close[i] = NpMin(args.close)
                            => out.np_close[i] = I(-1)
                      /\ args.close[i] = NpMax(args.close)
                            => out.np_close[i] = I(1)

\* alpha * x * x
AlphaSquare(alpha, x) == RMul(RMul(alpha, x), x)

\* x >= 0, by the sign of the numerator
NonNegative(x) == ~IsNaN(x) /\ x[1] >= 0

\* |y| * |y| of a result held as y * |y|
SquareOf(y) == IF IsNaN(y) THEN NaN ELSE <<Abs(y[1]), y[2]>>

\* C12: with 0 < alpha <= 1, at every position from n on where the mean
\* square is defined, _ms[i] >= alpha * _sum^2 >= 0 and the output y
\* satisfies alpha * y^2 <= 1; for a NaN-free input the mean square is
\* defined at every position.
C12_BoundedOscillator ==
    (/\ Done("trendflex")
     /\ out.returned = "Series"
     /\ RLe(out.engine[1].alpha, I(1)))
        => \A i \in DOMAIN out.warm :
              i >= EngineN
                 => /\ NoNaN(args.close) => ~IsNaN(out.buf.ms[i])
                    /\ ~IsNaN(out.buf.ms[i])
                          => /\ NonNegative(RSub(out.buf.ms[i],
                                       AlphaSquare(out.engine[1].alpha, out.buf.sum[i])))
                             /\ NonNegative(AlphaSquare(out.engine[1].alpha,
                                                        out.buf.sum[i]))
                             /\ RLe(RMul(out.engine[1].alpha, SquareOf(out.warm[i])),
                                    I(1))

\* C12 witness: alpha = 1/2, a non-zero output below the bound after one
\* that meets it
C12_Witness ==
    /\ Done("trendflex")
    /\ Size(args.close) = 4
    /\ EngineN = 2
    /\ out.engine[1].alpha = Q(1, 2)
    /\ RMul(Q(1, 2), SquareOf(out.warm[2])) = I(1)
    /\ out.warm[3] # RZero
    /\ RLt(RMul(Q(1, 2), SquareOf(out.warm[3])), I(1))

\* C13: with 0 < alpha < 1, a mean square that is non-zero at a position
\* from n on is non-zero at every later position; it is zero at position i
\* only if _sum is 0 at every position of [n, i]; and the output at a
\* position from n on is 0 if and only if _sum is 0 there.
C13_MeanSquareLatches ==
    (/\ Done("trendflex")
     /\ out.returned = "Series"
     /\ RLt(out.engine[1].alpha, I(1)))
        => \A i \in DOMAIN out.warm :
              i >= EngineN
                 => /\ RNe(out.buf.ms[i], RZero)
                          => \A j \in DOMAIN out.warm :
                                j > i => RNe(out.buf.ms[j], RZero)
                    /\ ~RNe(out.buf.ms[i], RZero)
                          => \A j \in EngineN .. i : out.buf.sum[j] = RZero
                    /\ out.warm[i] = RZero <=> out.buf.sum[i] = RZero

\* C13 witness: _sum is non-zero at n and zero after it, the mean square
\* stays non-zero and the output is 0
C13_Witness ==
    /\ Done("trendflex")
    /\ Size(args.close) = 4
    /\ EngineN = 2
    /\ out.engine[1].alpha = Q(1, 2)
    /\ out.buf.sum[2] # RZero
    /\ out.buf.sum[3] = RZero
    /\ RNe(out.buf.ms[3], RZero)
    /\ out.warm[3] = RZero

=============================================================================
